---- MODULE Spec2Model ----
(***************************************************************************)
(* State-machine model of bluedart_track_bot.py: the subscription store    *)
(* user_trackings, its JSON file, the foreground command handlers and the  *)
(* periodic poll cycle check_statuses.                                     *)
(*                                                                         *)
(* Execution model.  Everything runs on one asyncio event loop, so code    *)
(* between two awaits is atomic; fetch_bluedart_details is a blocking call *)
(* (requests.get) and is not a suspension point.  Updates are handled one  *)
(* at a time (ApplicationBuilder default), so at most one foreground       *)
(* handler is in flight; it interleaves with the poll cycle at the awaits. *)
(*                                                                         *)
(* Python dicts keep insertion order and their iterators fail when the     *)
(* dict's size changes (RuntimeError); both are modelled.  Writes of the   *)
(* JSON file are taken to succeed.  An exception that leaves               *)
(* check_statuses is caught by the scheduler: the job ends, the process    *)
(* goes on.                                                                *)
(*                                                                         *)
(* The 30-minute flush job is the plain function save_tracking_data, which *)
(* AsyncIOScheduler runs in the loop's thread pool, not on the loop: it    *)
(* can run between two blocks (flush) and also overlap a block             *)
(* (flush_in_thread).                                                      *)
(***************************************************************************)
EXTENDS Integers, Sequences, FiniteSets, TLC

(***************************************************************************)
(* Input universe.                                                         *)
(***************************************************************************)
Users == {7, 12}
Awbs == {"AWB1", "AWB2"}

\* The (subscriber, waybill) pairs commands are issued for: one subscriber
\* with two waybills, and a second subscriber sharing one of them.
Requests == {<<7, "AWB1">>, <<7, "AWB2">>, <<12, "AWB1">>}

\* Statuses get_latest_status may hand to the tail of fetch_bluedart_details.
RawStatuses == {"In Transit", "Shipment  Delivered"}

\* Handler blocks the event loop runs while one poll cycle is suspended.
MaxInterleave == 1

(***************************************************************************)
(* Python string primitives, on TLA+ strings.                              *)
(***************************************************************************)
UpperLetters == "ABCDEFGHIJKLMNOPQRSTUVWXYZ"
LowerLetters == "abcdefghijklmnopqrstuvwxyz"

CharAt(s, i) == SubSeq(s, i, i)

\* Each uppercase letter with its lowercase.
LowerMap ==
  [c \in {CharAt(UpperLetters, i) : i \in 1..26} |->
     CharAt(LowerLetters, CHOOSE i \in 1..26 : CharAt(UpperLetters, i) = c)]

LowerChar(c) == IF c \in DOMAIN LowerMap THEN LowerMap[c] ELSE c

\* f[a] \o ... \o f[b] for strings, by halves.
RECURSIVE ConcatRange(_, _, _)
ConcatRange(f, a, b) ==
  IF a > b THEN ""
  ELSE IF a = b THEN f[a]
  ELSE LET m == (a + b) \div 2
       IN ConcatRange(f, a, m) \o ConcatRange(f, m + 1, b)

lower(s) == ConcatRange([i \in 1..Len(s) |-> LowerChar(CharAt(s, i))], 1, Len(s))

\* Python's  t in s  for strings.
Contains(s, t) ==
  \E i \in 1..(Len(s) - Len(t) + 1) : SubSeq(s, i, i + Len(t) - 1) = t

IsSpace(c) == c \in {" ", "\t", "\n", "\r"}

\* ' '.join(s.split()): runs of whitespace become one space, ends are
\* trimmed.  A character that starts a word other than the first is preceded
\* by one space.
JoinSplit(s) ==
  LET Word(i) == ~IsSpace(CharAt(s, i))
      Piece(i) ==
        IF ~Word(i) THEN ""
        ELSE IF i > 1 /\ ~Word(i - 1) /\ \E j \in 1..(i - 1) : Word(j)
          THEN " " \o CharAt(s, i)
        ELSE CharAt(s, i)
  IN ConcatRange([i \in 1..Len(s) |-> Piece(i)], 1, Len(s))

Digits == "0123456789"

\* str(k) for an integer.
RECURSIVE Str(_)
Str(n) ==
  IF n < 0 THEN "-" \o Str(0 - n)
  ELSE IF n < 10 THEN CharAt(Digits, n + 1)
  ELSE Str(n \div 10) \o CharAt(Digits, (n % 10) + 1)

DigitVal(c) == (CHOOSE i \in 1..10 : CharAt(Digits, i) = c) - 1

\* Value of a string of decimal digits, leading zeros allowed.
RECURSIVE Int10(_, _)
Int10(s, acc) ==
  IF s = "" THEN acc
  ELSE Int10(SubSeq(s, 2, Len(s)), 10 * acc + DigitVal(CharAt(s, 1)))

IsDecimal(s) ==
  s # "" /\ \A i \in 1..Len(s) : \E j \in 1..10 : CharAt(Digits, j) = CharAt(s, i)

\* int(k) succeeds: an optional sign and decimal digits (surrounding
\* whitespace and underscores, which int() also takes, are not drawn).
IsIntLiteral(s) ==
  \/ IsDecimal(s)
  \/ Len(s) > 1 /\ CharAt(s, 1) \in {"-", "+"} /\ IsDecimal(SubSeq(s, 2, Len(s)))

\* int(k)
int(s) ==
  IF CharAt(s, 1) = "-" THEN 0 - Int10(SubSeq(s, 2, Len(s)), 0)
  ELSE IF CharAt(s, 1) = "+" THEN Int10(SubSeq(s, 2, Len(s)), 0)
  ELSE Int10(s, 0)

(***************************************************************************)
(* Tail of fetch_bluedart_details: is_delivered and the clean-up loop,     *)
(* for the "Status" field.                                                 *)
(***************************************************************************)
NoiseTokens == {"window", "function", "script", "analytics", "more\n\t\t\t"}

CleanField(v) ==
  IF v # "" /\ \E ph \in NoiseTokens : Contains(lower(v), ph)
    THEN "Information unavailable"
  ELSE IF v = "" THEN "N/A"
  ELSE IF v # "N/A" THEN JoinSplit(v)
  ELSE v

is_delivered_of(status) == Contains(lower(status), "delivered")

\* The (details, history) result, restricted to the fields the store uses.
\* found = FALSE is the  None, []  result.
NoDetails == [found |-> FALSE, Status |-> "", IsDelivered |-> FALSE]

MakeDetails(status) ==
  [found |-> TRUE, Status |-> CleanField(status),
   IsDelivered |-> is_delivered_of(status)]

fetch_bluedart_details == {NoDetails} \cup {MakeDetails(s) : s \in RawStatuses}

(***************************************************************************)
(* The page fetch_bluedart_details parses.  The parsed document, scripts   *)
(* and styles removed, is the sequence of the root's children in page      *)
(* order: a text node, an element holding one text node, or a table with   *)
(* rows of td/th cells.  s is the text of the node with surrounding        *)
(* whitespace stripped, "" for an element without text.  The source has    *)
(* every node, row and cell on a line of its own, so get_text() separates  *)
(* their texts by newlines.                                                *)
(***************************************************************************)
Cell(tag, s) == [tag |-> tag, s |-> s]
Table(rows) == [k |-> "table", s |-> "", rows |-> rows]
Para(s) == [k |-> "p", s |-> s, rows |-> <<>>]
Text(s) == [k |-> "text", s |-> s, rows |-> <<>>]

RECURSIVE Flatten(_)
Flatten(ss) == IF ss = <<>> THEN <<>> ELSE Head(ss) \o Flatten(Tail(ss))

\* "".join(ss)
Concat(ss) == ConcatRange(ss, 1, Len(ss))

\* "\n".join(ss)
JoinNl(ss) ==
  ConcatRange([i \in 1..Len(ss) |-> IF i = 1 THEN ss[i] ELSE "\n" \o ss[i]],
              1, Len(ss))

\* s.strip()
strip(s) ==
  LET keep == {i \in 1..Len(s) : ~IsSpace(CharAt(s, i))}
      first == CHOOSE i \in keep : \A j \in keep : i <= j
      last == CHOOSE i \in keep : \A j \in keep : j <= i
  IN IF keep = {} THEN "" ELSE SubSeq(s, first, last)

\* s.split('\n'): the pieces between the ends of s and its newlines.
split_nl(s) ==
  LET cuts == {0, Len(s) + 1} \cup {i \in 1..Len(s) : CharAt(s, i) = "\n"}
      Cut(k) == CHOOSE c \in cuts : Cardinality({x \in cuts : x < c}) = k
  IN [k \in 1..(Cardinality(cuts) - 1) |->
        SubSeq(s, Cut(k - 1) + 1, Cut(k) - 1)]

\* soup.find_all("table")
find_all_table(doc) == SelectSeq(doc, LAMBDA n : n.k = "table")

\* Every tr of every table, in page order.
AllRows(doc) ==
  LET tables == find_all_table(doc)
  IN Flatten([i \in 1..Len(tables) |-> tables[i].rows])

RowTexts(row) == [i \in 1..Len(row) |-> row[i].s]

\* row.find_all("td")
find_all_td(row) == SelectSeq(row, LAMBDA c : c.tag = "td")

\* The strings of a top-level node, in page order.
Strings(n) ==
  IF n.k = "table"
  THEN SelectSeq(Flatten([r \in 1..Len(n.rows) |-> RowTexts(n.rows[r])]),
                 LAMBDA s : s # "")
  ELSE IF n.s = "" THEN <<>> ELSE <<n.s>>

\* element.get_text(strip=True)
get_text_strip(n) == Concat(Strings(n))

\* element.get_text()
get_text(n) == JoinNl(Strings(n))

\* term.lower() in cell_text.lower()  for some search term; the terms come
\* lowered, as the set lowered.
Matches(text, lowered) ==
  LET cell_text == lower(text)
  IN \E term \in lowered : Contains(cell_text, term)

\* Method 1 of get_detail: the cells of a row that match a term and are
\* followed by a cell with a value.
AdjacentAt(row, lowered) ==
  {i \in 1..(Len(row) - 1) :
     /\ Matches(row[i].s, lowered)
     /\ row[i + 1].s # ""
     /\ row[i + 1].s # "N/A"}

\* The value Method 1 returns, as a sequence of at most one string.
table_adjacency(doc, terms) ==
  LET lowered == {lower(terms[t]) : t \in 1..Len(terms)}
      hits == SelectSeq(AllRows(doc),
                        LAMBDA r : Len(r) >= 2 /\ AdjacentAt(r, lowered) # {})
      row == Head(hits)
      at == AdjacentAt(row, lowered)
      i == CHOOSE j \in at : \A m \in at : j <= m
  IN IF hits = <<>> THEN <<>> ELSE <<row[i + 1].s>>

\* parent.find_next_siblings() of the parent of each text node, as the
\* stripped texts of the siblings: the cells after a cell, the elements
\* after a top-level element, nothing for a text node under the root.
ElementTextsAfter(doc, j) ==
  LET rest == SelectSeq(SubSeq(doc, j + 1, Len(doc)), LAMBDA n : n.k # "text")
  IN [i \in 1..Len(rest) |-> get_text_strip(rest[i])]

CellStrings(row) ==
  SelectSeq([i \in 1..Len(row) |->
               [s |-> row[i].s, sibs |-> SubSeq(RowTexts(row), i + 1, Len(row))]],
            LAMBDA e : e.s # "")

NodeStrings(doc, j) ==
  LET n == doc[j]
  IN IF n.k = "table"
     THEN Flatten([r \in 1..Len(n.rows) |-> CellStrings(n.rows[r])])
     ELSE IF n.s = "" THEN <<>>
     ELSE <<[s |-> n.s,
             sibs |-> IF n.k = "p" THEN ElementTextsAfter(doc, j) ELSE <<>>]>>

\* Every text node of the page, in page order.
TextNodes(doc) == Flatten([j \in 1..Len(doc) |-> NodeStrings(doc, j)])

SiblingSkip == {"window", "function", "script"}

Meaningful(text) ==
  /\ text # ""
  /\ Len(text) > 1
  /\ LET low == lower(text)
     IN ~\E skip \in SiblingSkip : Contains(low, skip)

\* The value Method 2 returns, as a sequence of at most one string: terms in
\* order, for each the text nodes in page order, for each its siblings.
sibling_walk(doc, terms) ==
  LET found == TextNodes(doc)
      nodes == [n \in 1..Len(found) |->
                  [s |-> lower(found[n].s), sibs |-> found[n].sibs]]
      Good(e) == SelectSeq(e.sibs, Meaningful)
      Hits(term) ==
        LET lowered == lower(term)
        IN SelectSeq(nodes, LAMBDA e : Contains(e.s, lowered) /\ Good(e) # <<>>)
      all == Flatten([t \in 1..Len(terms) |-> Hits(terms[t])])
  IN IF all = <<>> THEN <<>> ELSE <<Head(Good(Head(all)))>>

\* Variant: the text-sibling walk is tried before the table rows.
get_detail_walk_first(doc, label, alternatives) ==
  LET search_terms == <<label>> \o alternatives
      m1 == table_adjacency(doc, search_terms)
      m2 == sibling_walk(doc, search_terms)
  IN IF m2 # <<>> THEN m2[1]
     ELSE IF m1 # <<>> THEN m1[1]
     ELSE "N/A"

\* get_detail(label, alternatives) of lines 95-132.
get_detail(doc, label, alternatives) ==
  LET search_terms == <<label>> \o alternatives
      m1 == table_adjacency(doc, search_terms)
      m2 == sibling_walk(doc, search_terms)
  IN IF m1 # <<>> THEN m1[1]
     ELSE IF m2 # <<>> THEN m2[1]
     ELSE "N/A"

\* Second priority of get_latest_status: rows whose first cell is "status".
StatusRows(doc) ==
  SelectSeq(AllRows(doc),
            LAMBDA r : /\ Len(r) >= 2
                       /\ lower(r[1].s) = "status"
                       /\ Len(r[2].s) > 2)

ScanKeywords == {"status and scans", "scan", "activity", "tracking history"}

\* Third priority: the tables whose text holds a keyword; the first is used.
ScanTables(doc) ==
  SelectSeq(find_all_table(doc),
            LAMBDA t : \E kw \in ScanKeywords : Contains(lower(get_text(t)), kw))

\* rows[1:] of the scan table, each as the texts of its td cells.
ScanCols(doc) ==
  LET rows == Head(ScanTables(doc)).rows
  IN IF ScanTables(doc) = <<>> THEN <<>>
     ELSE [i \in 1..(Len(rows) - 1) |-> RowTexts(find_all_td(rows[i + 1]))]

\* location, details_text, date, time = cols  after  len(cols) >= 4 :
\* ValueError on a row with more than four cells.
UnpackRaises(doc) == \E i \in 1..Len(ScanCols(doc)) : Len(ScanCols(doc)[i]) > 4

history_entries(doc) ==
  SelectSeq(ScanCols(doc), LAMBDA cols : Len(cols) >= 4 /\ Len(cols[2]) > 3)

LineSkip == {"window", "function", "script", "analytics"}

\* Last resort: the stripped non-empty lines of soup.get_text().
Lines(doc) ==
  LET texts == Flatten([j \in 1..Len(doc) |-> Strings(doc[j])])
      pieces == Flatten([i \in 1..Len(texts) |-> split_nl(texts[i])])
  IN SelectSeq([i \in 1..Len(pieces) |-> strip(pieces[i])], LAMBDA l : l # "")

StatusLines(doc) ==
  SelectSeq(Lines(doc),
            LAMBDA line :
              /\ Contains(lower(line), "status")
              /\ Len(line) > 10
              /\ Len(line) < 100
              /\ ~\E skip \in LineSkip :
                    Contains(lower(JoinSplit(line)), skip))

\* Variant: the line scan is tried before the scan table.
get_latest_status_lines_first(doc) ==
  LET status_from_details ==
        get_detail(doc, "Status", <<"Current Status", "Shipment Status">>)
  IN IF status_from_details # "N/A"
       THEN [step |-> 1, status |-> status_from_details]
     ELSE IF StatusRows(doc) # <<>>
       THEN [step |-> 2, status |-> Head(StatusRows(doc))[2].s]
     ELSE IF StatusLines(doc) # <<>>
       THEN [step |-> 4, status |-> JoinSplit(Head(StatusLines(doc)))]
     ELSE IF UnpackRaises(doc)
       THEN [step |-> 0, status |-> ""]
     ELSE IF history_entries(doc) # <<>>
       THEN [step |-> 3, status |-> Head(history_entries(doc))[2]]
     ELSE [step |-> 5, status |-> "Status not available"]

\* The status and the priority that gave it; step 0 is the ValueError of
\* the third priority, which leaves get_latest_status without a value.
get_latest_status(doc) ==
  LET status_from_details ==
        get_detail(doc, "Status", <<"Current Status", "Shipment Status">>)
  IN IF status_from_details # "N/A"
       THEN [step |-> 1, status |-> status_from_details]
     ELSE IF StatusRows(doc) # <<>>
       THEN [step |-> 2, status |-> Head(StatusRows(doc))[2].s]
     ELSE IF UnpackRaises(doc)
       THEN [step |-> 0, status |-> ""]
     ELSE IF history_entries(doc) # <<>>
       THEN [step |-> 3, status |-> Head(history_entries(doc))[2]]
     ELSE IF StatusLines(doc) # <<>>
       THEN [step |-> 4, status |-> JoinSplit(Head(StatusLines(doc)))]
     ELSE [step |-> 5, status |-> "Status not available"]

BaseKeys == {"Waybill No", "Status", "Pickup Date", "From", "To", "Reference No"}
DeliveredKeys == {"Date of Delivery", "Time of Delivery", "Recipient"}
ExpectedKeys == {"Expected Delivery"}

\* Both conditional sets, whatever the status.
DetailKeys_both(is_delivered) == BaseKeys \cup DeliveredKeys \cup ExpectedKeys

\* Keys of the details dict other than "Is Delivered" (lines 210-227).
DetailKeys(is_delivered) ==
  BaseKeys \cup (IF is_delivered THEN DeliveredKeys ELSE ExpectedKeys)

\* The value each key is given before the clean-up.
RawField(doc, awb, status, key) ==
  CASE key = "Waybill No" -> awb
    [] key = "Status" -> status
    [] key = "Pickup Date" ->
         get_detail(doc, "Pickup Date", <<"Pickup", "Pick Up Date", "Booking Date">>)
    [] key = "From" -> get_detail(doc, "From", <<"Origin", "Source", "Consignor">>)
    [] key = "To" ->
         get_detail(doc, "To", <<"Destination", "Consignee", "Delivery To">>)
    [] key = "Reference No" ->
         get_detail(doc, "Reference No",
                    <<"Reference", "Ref No", "Customer Reference">>)
    [] key = "Date of Delivery" ->
         get_detail(doc, "Date of Delivery", <<"Delivery Date", "Delivered Date">>)
    [] key = "Time of Delivery" ->
         get_detail(doc, "Time of Delivery", <<"Delivery Time", "Delivered Time">>)
    [] key = "Recipient" ->
         get_detail(doc, "Recipient", <<"Received By", "Delivered To">>)
    [] key = "Expected Delivery" ->
         get_detail(doc, "Expected Date of Delivery",
                    <<"Expected Delivery", "Delivery Date", "EDD">>)

\* The  None, []  result.
NoRecord == [found |-> FALSE, fields |-> <<>>, IsDelivered |-> FALSE]

\* The details dict of a page: fields holds its text entries after the
\* clean-up loop, IsDelivered its "Is Delivered" entry.
details_of(awb, doc) ==
  LET st == get_latest_status(doc)
      is_delivered == is_delivered_of(st.status)
  IN IF st.step = 0 THEN NoRecord
     ELSE [found |-> TRUE,
           fields |-> [key \in DetailKeys(is_delivered) |->
                         CleanField(RawField(doc, awb, st.status, key))],
           IsDelivered |-> is_delivered]

\* The HTTP exchange of line 81: code 0 stands for an exception of
\* requests.get, any other code for a response with that status.
ParseResponse(awb, resp) ==
  IF resp.code # 200 THEN NoRecord ELSE details_of(awb, resp.doc)

\* [th.get_text(strip=True).lower() for th in table.find_all("th")]
headers(table) ==
  LET cells == Flatten(table.rows)
      ths == SelectSeq(cells, LAMBDA c : c.tag = "th")
  IN [i \in 1..Len(ths) |-> lower(ths[i].s)]

\* Variant: the table the status resolution reads is the one the history
\* is taken from.
scan_table_of_status(doc) ==
  IF ScanTables(doc) = <<>> THEN <<>> ELSE <<Head(ScanTables(doc))>>

\* The table the tracking history is read from, as a sequence of at most
\* one table: the first whose text holds "Status and Scans", or else the
\* first with four th cells, "date" and "time" among them (lines 248-260).
scan_table(doc) ==
  LET tables == find_all_table(doc)
      named == SelectSeq(tables,
                         LAMBDA t : Contains(get_text(t), "Status and Scans"))
      four == SelectSeq(tables,
                        LAMBDA t : /\ Len(headers(t)) = 4
                                   /\ \E i \in 1..4 : headers(t)[i] = "date"
                                   /\ \E i \in 1..4 : headers(t)[i] = "time")
  IN IF named # <<>> THEN <<Head(named)>>
     ELSE IF four # <<>> THEN <<Head(four)>>
     ELSE <<>>

\* The history list of lines 246-266.  An entry is the line
\* "{date}, {time} - {location}: {details_text}" of line 266, kept as its
\* four parts in the order the line has them.
history(doc) ==
  LET rows == IF scan_table(doc) = <<>> THEN <<>> ELSE scan_table(doc)[1].rows
      cols == [i \in 1..(Len(rows) - 1) |-> RowTexts(find_all_td(rows[i + 1]))]
      four == SelectSeq(cols, LAMBDA c : Len(c) = 4)
  IN [i \in 1..Len(four) |-> <<four[i][3], four[i][4], four[i][1], four[i][2]>>]

\* The second value fetch_bluedart_details returns: the history next to a
\* details dict (line 269), [] next to None (lines 86 and 272).
ParseHistory(awb, resp) ==
  IF resp.code # 200 THEN <<>>
  ELSE IF get_latest_status(resp.doc).step = 0 THEN <<>>
  ELSE history(resp.doc)

(***************************************************************************)
(* Python dicts as insertion-ordered sequences of key/value records.       *)
(***************************************************************************)
HasAwb(d, w) == \E i \in 1..Len(d) : d[i].awb = w
AwbIdx(d, w) == CHOOSE i \in 1..Len(d) : d[i].awb = w

RemoveAt(s, i) == SubSeq(s, 1, i - 1) \o SubSeq(s, i + 1, Len(s))

\* d[w] = st
AwbSet(d, w, st) ==
  IF HasAwb(d, w) THEN [d EXCEPT ![AwbIdx(d, w)].status = st]
  ELSE Append(d, [awb |-> w, status |-> st])

\* del d[w]
AwbDel(d, w) == RemoveAt(d, AwbIdx(d, w))

HasUser(ut, u) == \E i \in 1..Len(ut) : ut[i].uid = u
UserIdx(ut, u) == CHOOSE i \in 1..Len(ut) : ut[i].uid = u
AwbsOf(ut, u) == IF HasUser(ut, u) THEN ut[UserIdx(ut, u)].awbs ELSE <<>>

\* user_id in user_trackings and awb in user_trackings[user_id]
Tracked(ut, u, w) == HasUser(ut, u) /\ HasAwb(AwbsOf(ut, u), w)
StatusOf(ut, u, w) == AwbsOf(ut, u)[AwbIdx(AwbsOf(ut, u), w)].status

\* if user_id not in user_trackings: user_trackings[user_id] = {}
\* user_trackings[user_id][awb] = status
InsertEntry(ut, u, w, st) ==
  LET ut1 == IF HasUser(ut, u) THEN ut ELSE Append(ut, [uid |-> u, awbs |-> <<>>])
  IN [ut1 EXCEPT ![UserIdx(ut1, u)].awbs = AwbSet(@, w, st)]

\* Variant: the subscriber's dict is replaced instead of updated.
SetStatus_reset(ut, u, w, st) ==
  [ut EXCEPT ![UserIdx(ut, u)].awbs = <<[awb |-> w, status |-> st]>>]

\* user_trackings[user_id][awb] = new_status, for a user_id that is a key
SetStatus(ut, u, w, st) ==
  [ut EXCEPT ![UserIdx(ut, u)].awbs = AwbSet(@, w, st)]

\* Variant: the emptied subscriber key is left in the store.
DeleteEntry_keepkey(ut, u, w) ==
  LET i == UserIdx(ut, u)
  IN [ut EXCEPT ![i].awbs = AwbDel(ut[i].awbs, w)]

\* Variant: the waybill is deleted under every subscriber.
DeleteEntry_everyone(ut, u, w) ==
  LET cut == [i \in 1..Len(ut) |->
                [uid |-> ut[i].uid,
                 awbs |-> IF HasAwb(ut[i].awbs, w) THEN AwbDel(ut[i].awbs, w)
                          ELSE ut[i].awbs]]
  IN SelectSeq(cut, LAMBDA e : e.awbs # <<>>)

\* del user_trackings[user_id][awb]
\* if not user_trackings[user_id]: del user_trackings[user_id]
DeleteEntry(ut, u, w) ==
  LET i == UserIdx(ut, u)
      d == AwbDel(ut[i].awbs, w)
  IN IF d = <<>> THEN RemoveAt(ut, i) ELSE [ut EXCEPT ![i].awbs = d]

\* Variant: the pop empties the whole store.
PopUser_everyone(ut, u) == <<>>

\* user_trackings.pop(user_id, None)
PopUser(ut, u) == IF HasUser(ut, u) THEN RemoveAt(ut, UserIdx(ut, u)) ELSE ut

\* The waybills /list shows to subscriber u: none for a missing or empty key.
list_awbs(ut, u) ==
  IF ~HasUser(ut, u) \/ AwbsOf(ut, u) = <<>> THEN <<>>
  ELSE [j \in 1..Len(AwbsOf(ut, u)) |-> AwbsOf(ut, u)[j].awb]

\* The (subscriber, waybill, status) triples of a store.
Entries(ut) ==
  UNION {{<<ut[i].uid, ut[i].awbs[j].awb, ut[i].awbs[j].status>> :
            j \in 1..Len(ut[i].awbs)} : i \in 1..Len(ut)}

(***************************************************************************)
(* Persistence: load_tracking_data / save_tracking_data.                   *)
(***************************************************************************)
\* Variant: only the last digit of the subscriber id is written.
dump_lastdigit(ut) ==
  [i \in 1..Len(ut) |-> [key |-> Str(ut[i].uid % 10), val |-> ut[i].awbs]]

\* json.dump({str(k): v for k, v in user_trackings.items()}, f)
dump(ut) == [i \in 1..Len(ut) |-> [key |-> Str(ut[i].uid), val |-> ut[i].awbs]]

\* {int(k): v for k, v in data.items()}: a key that is already there keeps
\* its position and takes the later value.
RECURSIVE LoadItems(_, _)
LoadItems(data, acc) ==
  IF data = <<>> THEN acc
  ELSE LET k == int(Head(data).key)
           v == Head(data).val
       IN LoadItems(Tail(data),
                    IF HasUser(acc, k) THEN [acc EXCEPT ![UserIdx(acc, k)].awbs = v]
                    ELSE Append(acc, [uid |-> k, awbs |-> v]))

\* The store after load_tracking_data(): {} when there is no file and when
\* int(k) raises for some key (the except branch).
load_tracking_data(file) ==
  IF ~file.exists THEN <<>>
  ELSE IF \E i \in 1..Len(file.data) : ~IsIntLiteral(file.data[i].key) THEN <<>>
  ELSE LoadItems(file.data, <<>>)

\* The write is taken to succeed.
save_tracking_data(ut) == [exists |-> TRUE, data |-> dump(ut)]

(***************************************************************************)
(* State.                                                                  *)
(***************************************************************************)
VARIABLES
  user_trackings,  \* the global store {user_id: {awb: last_status}}
  tracking_file,   \* tracking_data.json
  h,               \* the foreground handler in flight and its pending reply
  poll_pc,         \* position of check_statuses
  it,              \* the dict iterator of  for user_id, awbs in ...items()
  cur_user,        \* user_id of the outer loop
  items,           \* rest of list(awbs.items()) of the inner loop
  changes_made,    \* the local flag of check_statuses
  pending,         \* the send_message the cycle is suspended on
  log,             \* send_message calls completed in this cycle
  blocks,          \* handler blocks run while this cycle was suspended
  result,          \* how the cycle ended
  failed_send,     \* history: the oldest notification whose send raised and
                   \* that has not been delivered since
  awb_arg,         \* argument of a call of fetch_bluedart_details on its own
  resp,            \* what requests.get gave that call
  fetched          \* what the call returned

pollvars == <<poll_pc, it, cur_user, items, changes_made, pending, log, blocks, result>>

\* Variables the handlers and the poll cycle neither read nor write.
aux == <<failed_send, awb_arg, resp, fetched>>

vars == <<user_trackings, tracking_file, h, poll_pc, it, cur_user, items,
          changes_made, pending, log, blocks, result, aux>>

Idle == [pc |-> "idle", op |-> "", user |-> 0, awb |-> "", reply |-> ""]
NoIter == [pos |-> 0, used |-> 0, len |-> 0]
NoMsg == [to |-> 0, awb |-> "", kind |-> "none", status |-> ""]

Reply(op, u, w, text) ==
  [pc |-> "reply", op |-> op, user |-> u, awb |-> w, reply |-> text]

\* The event loop can run a block of another task: the poll cycle is not
\* inside a synchronous block.  A handler's final await (its reply) reads and
\* writes nothing of the program's state, so it commutes with every other
\* step; it is completed before anything else runs.
LoopFree == poll_pc \in {"idle", "send"} /\ h.pc # "reply"

\* A handler block can run now.
CanHandle == LoopFree /\ (poll_pc = "send" => blocks < MaxInterleave)

\* Position of the dict iterator after a block turned store ut into ut2: a
\* deleted key leaves a hole the iterator skips, a new key is appended.
IterPos(ut, ut2, pos) == Cardinality({i \in 1..pos : HasUser(ut2, ut[i].uid)})

IterAfter(ut, ut2) == [it EXCEPT !.pos = IterPos(ut, ut2, it.pos)]

\* No request made, nothing returned.
NoResponse == [code |-> -1, doc |-> <<>>]
NotReturned == [returned |-> FALSE, details |-> NoRecord, history |-> <<>>]

AuxInit ==
  /\ failed_send = NoMsg
  /\ awb_arg = ""
  /\ resp = NoResponse
  /\ fetched = NotReturned

Init ==
  /\ tracking_file = [exists |-> FALSE, data |-> <<>>]
  /\ user_trackings = load_tracking_data(tracking_file)
  /\ h = Idle
  /\ poll_pc = "idle"
  /\ it = NoIter
  /\ cur_user = 0
  /\ items = <<>>
  /\ changes_made = FALSE
  /\ pending = NoMsg
  /\ log = <<>>
  /\ blocks = 0
  /\ result = "none"
  /\ AuxInit

\* A handler block that leaves store ut2 behind, saving it or not.
HandlerEffect(ut2, save, hnew) ==
  /\ user_trackings' = ut2
  /\ tracking_file' = IF save THEN save_tracking_data(ut2)
                      ELSE tracking_file
  /\ it' = IterAfter(user_trackings, ut2)
  /\ h' = hnew
  /\ blocks' = IF poll_pc = "send" /\ h.pc # "reply" THEN blocks + 1 ELSE blocks
  /\ UNCHANGED <<poll_pc, cur_user, items, changes_made, pending, log, result>>
  /\ UNCHANGED aux

(***************************************************************************)
(* Foreground handlers.                                                    *)
(***************************************************************************)
\* Variant: the "already tracking" test is skipped.
add_check_nocheck(u, w) ==
  /\ CanHandle /\ h.pc = "idle"
  /\ HandlerEffect(user_trackings, FALSE,
                   [pc |-> "add_loading", op |-> "add", user |-> u,
                    awb |-> w, reply |-> "loading"])

\* /add <awb>, up to  await update.message.reply_text("Fetching ...")
add_check(u, w) ==
  /\ CanHandle /\ h.pc = "idle"
  /\ IF Tracked(user_trackings, u, w)
     THEN HandlerEffect(user_trackings, FALSE, Reply("add", u, w, "already_tracked"))
     ELSE HandlerEffect(user_trackings, FALSE,
                        [pc |-> "add_loading", op |-> "add", user |-> u,
                         awb |-> w, reply |-> "loading"])

\* /add <awb>, from the fetch to the final edit_text
add(d) ==
  /\ CanHandle /\ h.pc = "add_loading"
  /\ LET u == h.user
         w == h.awb
     IN IF ~d.found
        THEN HandlerEffect(user_trackings, FALSE, Reply("add", u, w, "could_not_fetch"))
        ELSE IF d.IsDelivered
        THEN IF Tracked(user_trackings, u, w)
             THEN HandlerEffect(DeleteEntry(user_trackings, u, w), TRUE,
                                Reply("add", u, w, "delivered_removed"))
             ELSE HandlerEffect(user_trackings, FALSE, Reply("add", u, w, "delivered"))
        ELSE HandlerEffect(InsertEntry(user_trackings, u, w, d.Status), TRUE,
                           Reply("add", u, w, "added"))

\* the "add_track_<awb>" callback of button()
button_add_track(u, w, d) ==
  /\ CanHandle /\ h.pc = "idle"
  /\ IF Tracked(user_trackings, u, w)
     THEN HandlerEffect(user_trackings, FALSE, Reply("add_track", u, w, "already_tracked"))
     ELSE IF ~d.found
     THEN HandlerEffect(user_trackings, FALSE, Reply("add_track", u, w, "could_not_fetch"))
     ELSE HandlerEffect(InsertEntry(user_trackings, u, w, d.Status), TRUE,
                        Reply("add_track", u, w, "added"))

\* /remove <awb>
remove(u, w, d) ==
  /\ CanHandle /\ h.pc = "idle"
  /\ IF Tracked(user_trackings, u, w)
     THEN HandlerEffect(DeleteEntry(user_trackings, u, w), TRUE,
                        Reply("remove", u, w, "removed"))
     ELSE HandlerEffect(user_trackings, FALSE, Reply("remove", u, w, "not_found"))

\* Variant: a failed fetch is handled like a delivered shipment.
track_failure_evicts(u, w, d) ==
  /\ CanHandle /\ h.pc = "idle"
  /\ IF (~d.found \/ d.IsDelivered) /\ Tracked(user_trackings, u, w)
     THEN HandlerEffect(DeleteEntry(user_trackings, u, w), TRUE,
                        Reply("track", u, w, "delivered_removed"))
     ELSE HandlerEffect(user_trackings, FALSE,
                        Reply("track", u, w,
                              IF ~d.found THEN "could_not_fetch"
                              ELSE IF d.IsDelivered THEN "delivered" ELSE "details"))

\* /track <awb>
track(u, w, d) ==
  /\ CanHandle /\ h.pc = "idle"
  /\ IF ~d.found
     THEN HandlerEffect(user_trackings, FALSE, Reply("track", u, w, "could_not_fetch"))
     ELSE IF d.IsDelivered /\ Tracked(user_trackings, u, w)
     THEN HandlerEffect(DeleteEntry(user_trackings, u, w), TRUE,
                        Reply("track", u, w, "delivered_removed"))
     ELSE HandlerEffect(user_trackings, FALSE,
                        Reply("track", u, w,
                              IF d.IsDelivered THEN "delivered" ELSE "details"))

\* the "confirm_clear" callback of button()
button_confirm_clear(u) ==
  /\ CanHandle /\ h.pc = "idle"
  /\ HandlerEffect(PopUser(user_trackings, u), TRUE, Reply("confirm_clear", u, "", "cleared"))

\* The handler's last await completes; the next update can be processed.
handler_return ==
  /\ h.pc = "reply"
  /\ HandlerEffect(user_trackings, FALSE, Idle)

(***************************************************************************)
(* The poll cycle check_statuses.                                          *)
(***************************************************************************)
TotalAwbs(ut) == Cardinality(Entries(ut))

\* The cycle ends (normally or by an exception that propagates to the
\* scheduler); its locals stay visible until check_return.
CycleEnds(how) ==
  /\ poll_pc' = "done"
  /\ result' = how

\* Entry of check_statuses up to the creation of the dict iterator.
check_start ==
  /\ poll_pc = "idle" /\ h.pc # "reply"
  /\ IF TotalAwbs(user_trackings) = 0
     THEN /\ CycleEnds("nothing_to_check")
          /\ it' = NoIter
     ELSE /\ poll_pc' = "outer"
          /\ result' = "none"
          /\ it' = [pos |-> 0, used |-> Len(user_trackings), len |-> Len(user_trackings)]
  /\ changes_made' = FALSE
  /\ cur_user' = 0
  /\ items' = <<>>
  /\ pending' = NoMsg
  /\ log' = <<>>
  /\ blocks' = 0
  /\ UNCHANGED <<user_trackings, tracking_file, h>>
  /\ UNCHANGED aux

\* One step of  for user_id, awbs in user_trackings.items():  followed,
\* when the iterator is exhausted, by the tail of check_statuses.
check_next_user ==
  /\ poll_pc = "outer"
  /\ IF it.used # Len(user_trackings)
     THEN \* dictionary changed size during iteration
          /\ CycleEnds("RuntimeError")
          /\ UNCHANGED <<tracking_file, it, cur_user, items>>
     ELSE IF it.pos < Len(user_trackings)
     THEN IF it.len = 0
          THEN \* dictionary keys changed during iteration
               /\ CycleEnds("RuntimeError")
               /\ UNCHANGED <<tracking_file, it, cur_user, items>>
          ELSE /\ poll_pc' = "inner"
               /\ cur_user' = user_trackings[it.pos + 1].uid
               /\ items' = user_trackings[it.pos + 1].awbs
               /\ it' = [it EXCEPT !.pos = @ + 1, !.len = @ - 1]
               /\ UNCHANGED <<tracking_file, result>>
     ELSE /\ CycleEnds("returned")
          /\ tracking_file' =
               IF changes_made
               THEN save_tracking_data(user_trackings)
               ELSE tracking_file
          /\ UNCHANGED <<it, cur_user, items>>
  /\ UNCHANGED <<user_trackings, h, changes_made, pending, log, blocks>>
  /\ UNCHANGED aux

\* for awb, last_status in list(awbs.items()):  is exhausted
check_user_done ==
  /\ poll_pc = "inner"
  /\ items = <<>>
  /\ poll_pc' = "outer"
  /\ UNCHANGED <<user_trackings, tracking_file, h, it, cur_user, items,
                 changes_made, pending, log, blocks, result>>
  /\ UNCHANGED aux

Notification(kind, u, w, st) == [to |-> u, awb |-> w, kind |-> kind, status |-> st]

\* Body of the inner loop for one snapshot item, up to the await of
\* send_message (or to the next item when nothing is sent), without its
\* (absent) effect on the file.
check_entry_block(d) ==
  /\ poll_pc = "inner"
  /\ items # <<>>
  /\ LET awb == Head(items).awb
         last_status == Head(items).status
         new_status == IF d.found THEN d.Status ELSE "N/A"
         is_delivered == IF d.found THEN d.IsDelivered ELSE FALSE
     IN /\ items' = Tail(items)
        /\ IF new_status # last_status
           THEN /\ changes_made' = TRUE
                /\ IF is_delivered
                   THEN IF Tracked(user_trackings, cur_user, awb)
                        THEN /\ user_trackings' = DeleteEntry(user_trackings, cur_user, awb)
                             /\ pending' = Notification("delivered", cur_user, awb, new_status)
                             /\ poll_pc' = "send"
                             /\ UNCHANGED result
                        ELSE \* del user_trackings[user_id][awb]
                             /\ CycleEnds("KeyError")
                             /\ UNCHANGED <<user_trackings, pending>>
                   ELSE IF HasUser(user_trackings, cur_user)
                        THEN /\ user_trackings' =
                                  SetStatus(user_trackings, cur_user, awb, new_status)
                             /\ pending' = Notification("status", cur_user, awb, new_status)
                             /\ poll_pc' = "send"
                             /\ UNCHANGED result
                        ELSE \* user_trackings[user_id][awb] = new_status
                             /\ CycleEnds("KeyError")
                             /\ UNCHANGED <<user_trackings, pending>>
           ELSE UNCHANGED <<user_trackings, changes_made, pending, poll_pc, result>>
  /\ it' = IterAfter(user_trackings, user_trackings')
  /\ UNCHANGED <<h, cur_user, log, blocks>>
  /\ UNCHANGED aux

\* The inner-loop body, run while no other thread writes the file.
check_entry(d) == check_entry_block(d) /\ UNCHANGED tracking_file

\* Variant: an exception of send_message leaves check_statuses.
send_block_raises(ok) ==
  /\ poll_pc = "send" /\ h.pc # "reply"
  /\ log' = Append(log, pending)
  /\ pending' = NoMsg
  /\ IF ok THEN poll_pc' = "inner" /\ UNCHANGED result
     ELSE CycleEnds("TelegramError")
  /\ UNCHANGED <<user_trackings, tracking_file, h, it, cur_user, items,
                 changes_made, blocks>>

\* await app.bot.send_message(...) completes or raises; both are only logged
\* and the inner loop goes on.
send_block(ok) ==
  /\ poll_pc = "send" /\ h.pc # "reply"
  /\ log' = Append(log, pending)
  /\ pending' = NoMsg
  /\ poll_pc' = "inner"
  /\ UNCHANGED <<user_trackings, tracking_file, h, it, cur_user, items,
                 changes_made, blocks, result>>

send_message(ok) == send_block(ok) /\ UNCHANGED aux

\* The same step with the outcome recorded: a raised send is remembered
\* unless an older one still is, a delivered one clears the equal message.
send_message_observed(ok) ==
  /\ send_block(ok)
  /\ failed_send' =
       IF ok
       THEN IF failed_send = pending THEN NoMsg ELSE failed_send
       ELSE IF failed_send = NoMsg THEN pending ELSE failed_send
  /\ UNCHANGED <<awb_arg, resp, fetched>>

\* The job is over; the scheduler may start the next cycle.
check_return ==
  /\ poll_pc = "done"
  /\ poll_pc' = "idle"
  /\ it' = NoIter
  /\ cur_user' = 0
  /\ items' = <<>>
  /\ changes_made' = FALSE
  /\ pending' = NoMsg
  /\ log' = <<>>
  /\ blocks' = 0
  /\ result' = "none"
  /\ UNCHANGED <<user_trackings, tracking_file, h>>
  /\ UNCHANGED aux

(***************************************************************************)
(* Environment: the 30-minute flush job and process restart.               *)
(***************************************************************************)
\* scheduler.add_job(save_tracking_data, "interval", minutes=30)
flush ==
  /\ LoopFree
  /\ tracking_file' = save_tracking_data(user_trackings)
  /\ UNCHANGED <<user_trackings, h, pollvars>>
  /\ UNCHANGED aux

\* What json.dump reads from data_to_save when the comprehension of
\* save_tracking_data ran on store ut and the dump after the block that
\* left ut2: the keys of ut, each with its inner dict as it is now (the
\* dict of a key deleted by  del user_trackings[user_id]  was emptied first).
TornStore(ut, ut2) ==
  [i \in 1..Len(ut) |-> [uid |-> ut[i].uid, awbs |-> AwbsOf(ut2, ut[i].uid)]]

\* The flush job's thread overlaps a block of the poll cycle that mutates
\* the store: data_to_save is built before the block, written after it.
flush_in_thread(d) ==
  /\ check_entry_block(d)
  /\ user_trackings' # user_trackings
  /\ tracking_file' =
       save_tracking_data(TornStore(user_trackings, user_trackings'))

\* The process dies and main() runs again: load_tracking_data().
restart ==
  /\ LoopFree
  /\ user_trackings' = load_tracking_data(tracking_file)
  /\ h' = Idle
  /\ poll_pc' = "idle"
  /\ it' = NoIter
  /\ cur_user' = 0
  /\ items' = <<>>
  /\ changes_made' = FALSE
  /\ pending' = NoMsg
  /\ log' = <<>>
  /\ blocks' = 0
  /\ result' = "none"
  /\ UNCHANGED tracking_file
  /\ UNCHANGED aux

Next ==
  \/ \E r \in Requests : add_check(r[1], r[2])
  \/ \E d \in fetch_bluedart_details : add(d)
  \/ \E r \in Requests, d \in fetch_bluedart_details : button_add_track(r[1], r[2], d)
  \/ \E r \in Requests, d \in fetch_bluedart_details : remove(r[1], r[2], d)
  \/ \E r \in Requests, d \in fetch_bluedart_details : track(r[1], r[2], d)
  \/ \E u \in Users : button_confirm_clear(u)
  \/ handler_return
  \/ check_start
  \/ check_next_user
  \/ check_user_done
  \/ \E d \in fetch_bluedart_details : check_entry(d)
  \/ \E ok \in BOOLEAN : send_message(ok)
  \/ check_return
  \/ flush
  \/ \E d \in fetch_bluedart_details : flush_in_thread(d)
  \/ restart

Spec == Init /\ [][Next]_vars

(***************************************************************************)
(* The program started on a tracking file it finds on disk: files written  *)
(* by an earlier run or by hand, with keys that are not the canonical      *)
(* decimal of an id, repeated ids and keys int() rejects.                  *)
(***************************************************************************)
FileKeys == {"7", "07", "12", "-7", "x7"}

FileVals ==
  {<<>>,
   <<[awb |-> "AWB1", status |-> "In Transit"]>>,
   <<[awb |-> "AWB2", status |-> "Shipment Delivered"],
     [awb |-> "AWB1", status |-> "In Transit"]>>}

\* Keys of the JSON object in the file the program starts on.
MaxFileKeys == 2

StartFiles ==
  {[exists |-> FALSE, data |-> <<>>]} \cup
  {[exists |-> TRUE, data |-> s] :
     s \in UNION {[1..n -> [key : FileKeys, val : FileVals]] : n \in 0..MaxFileKeys}}

RoundTripInit ==
  /\ tracking_file \in StartFiles
  /\ user_trackings = load_tracking_data(tracking_file)
  /\ h = Idle
  /\ poll_pc = "idle"
  /\ it = NoIter
  /\ cur_user = 0
  /\ items = <<>>
  /\ changes_made = FALSE
  /\ pending = NoMsg
  /\ log = <<>>
  /\ blocks = 0
  /\ result = "none"
  /\ AuxInit

\* Saves, reloads and the handlers that grow and shrink the store.
RoundTripNext ==
  \/ flush
  \/ restart
  \/ \E r \in Requests, d \in fetch_bluedart_details : button_add_track(r[1], r[2], d)
  \/ \E r \in Requests, d \in fetch_bluedart_details : remove(r[1], r[2], d)
  \/ \E u \in Users : button_confirm_clear(u)
  \/ handler_return

RoundTripSpec == RoundTripInit /\ [][RoundTripNext]_vars

(***************************************************************************)
(* The poll cycle with the outcome of every send recorded.  Subscribers    *)
(* only subscribe, between cycles; the scheduler starts a cycle every five *)
(* minutes and the event loop resumes it, so the cycle's steps are taken   *)
(* again and again.                                                        *)
(***************************************************************************)
PollStep ==
  \/ check_start
  \/ check_next_user
  \/ check_user_done
  \/ \E d \in fetch_bluedart_details : check_entry(d)
  \/ \E ok \in BOOLEAN : send_message_observed(ok)
  \/ check_return

NotifyNext ==
  \/ \E r \in Requests, d \in fetch_bluedart_details :
       poll_pc = "idle" /\ button_add_track(r[1], r[2], d)
  \/ handler_return
  \/ check_start
  \/ check_next_user
  \/ check_user_done
  \/ \E d \in fetch_bluedart_details : check_entry(d)
  \/ \E ok \in BOOLEAN : send_message_observed(ok)
  \/ check_return

\* A reply in flight completes; the poll cycle, which cannot start during
\* it, runs whenever it is enabled again and again.
NotifySpec ==
  Init /\ [][NotifyNext]_vars /\ WF_vars(handler_return) /\ SF_vars(PollStep)

(***************************************************************************)
(* fetch_bluedart_details on its own: one call, on any waybill id a caller *)
(* can pass and any response, the page built from a few nodes.             *)
(***************************************************************************)
ScanTable(data) ==
  Table(<< <<Cell("th", "Status and Scans")>>,
           <<Cell("th", "Location"), Cell("th", "Details"),
             Cell("th", "Date"), Cell("th", "Time")>>,
           data >>)

Nodes ==
  {Table(<< <<Cell("th", "Status"), Cell("td", "In Transit")>> >>),
   Table(<< <<Cell("td", "Status"), Cell("td", "Delivered At Window")>> >>),
   Table(<< <<Cell("td", "Status"), Cell("td", "N/A")>> >>),
   Table(<< <<Cell("td", "Delivery Date"), Cell("td", "01 Jan 2024")>>,
            <<Cell("td", "Received By"), Cell("td", "")>> >>),
   ScanTable(<<Cell("td", "DELHI"), Cell("td", "Shipment Delivered"),
               Cell("td", "01 Jan 2024"), Cell("td", "10:30")>>),
   ScanTable(<<Cell("td", "DELHI"), Cell("td", "In Transit"),
               Cell("td", "01 Jan 2024"), Cell("td", "10:30"), Cell("td", "")>>),
   Text("Order Status: In Transit For Further Info"),
   Para("Current Status"),
   Para("Out For  Delivery"),
   Table(<< <<Cell("th", "Location"), Cell("th", "Details"),
              Cell("th", "Date"), Cell("th", "Time")>>,
            <<Cell("td", "DELHI"), Cell("td", "Picked Up"),
              Cell("td", "01 Jan 2024"), Cell("td", "10:30")>>,
            <<Cell("td", "MUMBAI"), Cell("td", "02 Jan 2024"),
              Cell("td", "11:45")>>,
            <<Cell("td", "PUNE"), Cell("td", "Arrived"),
              Cell("td", "03 Jan 2024"), Cell("td", "09:15")>> >>)}

\* Top-level nodes of a page.
MaxNodes == 2

Pages == UNION {[1..n -> Nodes] : n \in 0..MaxNodes}

\* Waybill ids: a command argument, and the ids a callback payload or a key
\* of the tracking file can hold besides.
AwbArgs == {"AWB1", "", " "}

Responses ==
  {[code |-> 0, doc |-> <<>>], [code |-> 404, doc |-> <<>>]} \cup
  {[code |-> 200, doc |-> p] : p \in Pages}

ExtractInit ==
  /\ tracking_file = [exists |-> FALSE, data |-> <<>>]
  /\ user_trackings = load_tracking_data(tracking_file)
  /\ h = Idle
  /\ poll_pc = "idle"
  /\ it = NoIter
  /\ cur_user = 0
  /\ items = <<>>
  /\ changes_made = FALSE
  /\ pending = NoMsg
  /\ log = <<>>
  /\ blocks = 0
  /\ result = "none"
  /\ failed_send = NoMsg
  /\ awb_arg \in AwbArgs
  /\ resp = NoResponse
  /\ fetched = NotReturned

\* requests.get returns or raises (line 81).
requests_get(r) ==
  /\ resp = NoResponse
  /\ resp' = r
  /\ UNCHANGED <<user_trackings, tracking_file, h, pollvars, failed_send,
                 awb_arg, fetched>>

\* The rest of the call, to one of its returns (lines 84-272).
fetch_return ==
  /\ resp # NoResponse
  /\ ~fetched.returned
  /\ fetched' = [returned |-> TRUE,
                 details |-> ParseResponse(awb_arg, resp),
                 history |-> ParseHistory(awb_arg, resp)]
  /\ UNCHANGED <<user_trackings, tracking_file, h, pollvars, failed_send,
                 awb_arg, resp>>

ExtractNext ==
  \/ \E r \in Responses : requests_get(r)
  \/ fetch_return

ExtractSpec == ExtractInit /\ [][ExtractNext]_vars

(***************************************************************************)
(* Properties.                                                             *)
(***************************************************************************)
Delivered == {d \in fetch_bluedart_details : d.found /\ d.IsDelivered}
InTransit == {d \in fetch_bluedart_details : d.found /\ ~d.IsDelivered}

\* The file holds exactly the in-memory store.
Persisted == load_tracking_data(tracking_file) = user_trackings
PersistedNext == load_tracking_data(tracking_file') = user_trackings'

StoreAndFileUnchanged == UNCHANGED <<user_trackings, tracking_file>>

\* The step is a block of a handler of one of these commands.
HandlerStep(ops) == h.pc \in {"idle", "add_loading"} /\ h'.op \in ops

\* C1: when the fetch of a poll step returns no record, the step leaves the
\* store as it is, sends nothing and does not mark the cycle for saving.
C1_FailedFetchIsSkipped ==
  [][check_entry(NoDetails) =>
       /\ user_trackings' = user_trackings
       /\ pending' = NoMsg /\ poll_pc' = "inner"
       /\ changes_made' = changes_made]_vars

\* C2: a poll step whose extraction is delivered and differs from the status
\* of a stored, not delivered entry removes the entry and sends one
\* delivered-notification to its subscriber; the cycle that sent a
\* delivered-notification ends with the store persisted and the entry gone,
\* having notified each evicted entry once.
C2_EvictionStep ==
  \A d \in Delivered :
    (/\ check_entry(d)
     /\ Tracked(user_trackings, cur_user, Head(items).awb)
     /\ ~is_delivered_of(Head(items).status)
     /\ d.Status # Head(items).status)
    => /\ ~Tracked(user_trackings', cur_user, Head(items).awb)
       /\ pending' = [to |-> cur_user, awb |-> Head(items).awb,
                      kind |-> "delivered", status |-> d.Status]
       /\ poll_pc' = "send"

C2_EvictionAtCycleEnd ==
  poll_pc = "done" =>
    \A i \in 1..Len(log) :
      log[i].kind = "delivered" =>
        /\ Persisted
        /\ \A j \in 1..Len(log) :
             (log[j].kind = "delivered" /\ log[j].to = log[i].to
              /\ log[j].awb = log[i].awb) => j = i

C2_DeliveredEvictsPersistsNotifiesOnce ==
  []C2_EvictionAtCycleEnd /\ [][C2_EvictionStep]_vars

\* C3: a poll step whose successful, not delivered extraction differs from
\* the last_status the cycle holds for an entry that is in the store sets the
\* status of exactly that entry to the new status and suspends on exactly one
\* status notification to the owner, carrying the new status, also when the
\* flush thread overlaps the step; completing the send delivers that one
\* message.
C3_StatusChangeStep ==
  \A d \in InTransit :
    (/\ check_entry_block(d)
     /\ Tracked(user_trackings, cur_user, Head(items).awb)
     /\ d.Status # Head(items).status)
    => LET w == Head(items).awb
           old == StatusOf(user_trackings, cur_user, w)
       IN /\ Entries(user_trackings') =
               (Entries(user_trackings) \ {<<cur_user, w, old>>})
                 \cup {<<cur_user, w, d.Status>>}
          /\ pending' = [to |-> cur_user, awb |-> w, kind |-> "status",
                         status |-> d.Status]
          /\ poll_pc' = "send"
          /\ log' = log

C3_SendStep ==
  (poll_pc = "send" /\ poll_pc' = "inner") =>
    /\ log' = Append(log, pending)
    /\ pending' = NoMsg
    /\ user_trackings' = user_trackings

C3_StatusChangeOverwritesAndNotifies ==
  [][C3_StatusChangeStep /\ C3_SendStep]_vars

C3_Witness ==
  /\ poll_pc = "inner"
  /\ log # <<>>
  /\ log[Len(log)].kind = "status"
  /\ log[Len(log)].status = "In Transit"
  /\ Tracked(user_trackings, log[Len(log)].to, log[Len(log)].awb)
  /\ StatusOf(user_trackings, log[Len(log)].to, log[Len(log)].awb) = "In Transit"
  /\ Cardinality(Entries(user_trackings)) = 3

\* C4: a cycle that changed the store (every change is followed by a send)
\* ends with the file holding the in-memory store.
C4_ChangedCycleIsPersisted ==
  (poll_pc = "done" /\ log # <<>>) => Persisted

\* C5: no subscribe path creates an entry from a delivered extraction.
C5_DeliveredNeverAdmitted ==
  [][\A d \in Delivered :
       (add(d) \/ \E r \in Requests : button_add_track(r[1], r[2], d))
       => Entries(user_trackings') \subseteq Entries(user_trackings)]_vars

\* C6: once a poll step has extracted a delivered record for an entry, the
\* entry is out of the store, whatever its stored status was.
C6_DeliveredAlwaysEvicted ==
  [][\A d \in Delivered :
       check_entry(d) => ~Tracked(user_trackings', cur_user, Head(items).awb)]_vars

\* C7: add (command or button) for a pair that is in the store answers
\* "already tracked" and changes neither the store nor the file.
C7_SubscribeIdempotent ==
  [][\A r \in Requests :
       (/\ HandlerStep({"add", "add_track"})
        /\ Tracked(user_trackings, r[1], r[2])
        /\ \/ add_check(r[1], r[2])
           \/ \E d \in fetch_bluedart_details : button_add_track(r[1], r[2], d))
       => /\ h'.pc = "reply" /\ h'.reply = "already_tracked"
          /\ StoreAndFileUnchanged]_vars

C7_Witness ==
  /\ h.pc = "reply" /\ h.op = "add" /\ h.reply = "already_tracked"
  /\ Tracked(user_trackings, h.user, h.awb)

\* C8: add for a waybill whose extraction is delivered leaves the waybill
\* untracked by the caller, also when the caller had an entry for it.
C8_AddDeliveredEvicts ==
  [][\A d \in Delivered :
       /\ add(d) => ~Tracked(user_trackings', h.user, h.awb)
       /\ \A r \in Requests :
            (add_check(r[1], r[2]) /\ h'.pc = "reply")
            => ~Tracked(user_trackings', r[1], r[2])]_vars

\* C9: add, the add-to-tracking button and track change neither the store
\* nor the file when the fetch returns no record.
C9_FailedFetchChangesNothing ==
  [][(/\ HandlerStep({"add", "add_track", "track"})
      /\ \/ add(NoDetails)
         \/ \E r \in Requests : button_add_track(r[1], r[2], NoDetails)
         \/ \E r \in Requests : track(r[1], r[2], NoDetails))
     => StoreAndFileUnchanged]_vars

C9_Witness ==
  /\ h.pc = "reply" /\ h.op = "track" /\ h.reply = "could_not_fetch"
  /\ Tracked(user_trackings, h.user, h.awb)

\* C10: remove of a tracked pair removes exactly that pair whatever the
\* confirmation fetch returns, leaves the caller's key only if the caller
\* has entries left and saves; remove of an untracked pair changes neither
\* store nor file.
NoEmptyUser(ut) == \A i \in 1..Len(ut) : ut[i].awbs # <<>>

C10_RemoveStep ==
  \A r \in Requests, d \in fetch_bluedart_details :
    (HandlerStep({"remove"}) /\ remove(r[1], r[2], d)) =>
      IF Tracked(user_trackings, r[1], r[2])
      THEN /\ Entries(user_trackings') =
                Entries(user_trackings)
                  \ {<<r[1], r[2], StatusOf(user_trackings, r[1], r[2])>>}
           /\ HasUser(user_trackings', r[1]) => AwbsOf(user_trackings', r[1]) # <<>>
           /\ PersistedNext
      ELSE StoreAndFileUnchanged

C10_UnsubscribeRemovesExactlyThePair == [][C10_RemoveStep]_vars

C10_Witness ==
  /\ h.pc = "reply" /\ h.op = "remove" /\ h.reply = "removed"
  /\ ~HasUser(user_trackings, h.user)
  /\ user_trackings # <<>>

\* C11: neither the in-memory store, at any point where another task or
\* the flush can see it, nor the persisted store holds a subscriber key with
\* an empty waybill set.
C11_NoEmptySubscriberKey ==
  /\ NoEmptyUser(user_trackings)
  /\ NoEmptyUser(load_tracking_data(tracking_file))

\* C12: the confirmed clear of subscriber u leaves no key and no entry of u,
\* so that listing u shows nothing, leaves the keys and entries of every other
\* subscriber as they were, and ends with the file holding the store.
C12_ClearStep ==
  \A u \in Users :
    (HandlerStep({"confirm_clear"}) /\ button_confirm_clear(u)) =>
      /\ ~HasUser(user_trackings', u)
      /\ list_awbs(user_trackings', u) = <<>>
      /\ Entries(user_trackings') = {e \in Entries(user_trackings) : e[1] # u}
      /\ \A v \in Users \ {u} :
           /\ HasUser(user_trackings', v) = HasUser(user_trackings, v)
           /\ AwbsOf(user_trackings', v) = AwbsOf(user_trackings, v)
      /\ PersistedNext

C12_ClearRemovesSubscriber == [][C12_ClearStep]_vars

\* A subscriber with two entries, the first just overwritten by the poll
\* cycle, has confirmed the clear; the other subscriber's entry is there.
C12_Witness ==
  /\ h.pc = "reply" /\ h.op = "confirm_clear"
  /\ poll_pc = "send" /\ cur_user = h.user
  /\ pending.kind = "status" /\ items # <<>>
  /\ ~HasUser(user_trackings, h.user)
  /\ user_trackings # <<>>
  /\ Persisted

\* C13: loading what save writes for the store gives the store back, with
\* integer subscriber ids; and saving what the first load of a file gave and
\* loading again gives the same mapping as that first load.
C13_PersistenceRoundTrips ==
  /\ load_tracking_data(save_tracking_data(user_trackings)) = user_trackings
  /\ LET first == load_tracking_data(tracking_file)
     IN load_tracking_data(save_tracking_data(first)) = first

\* A store loaded from a file found on disk, with the ids -7 and 7, has
\* grown by an entry of subscriber 12 and has been saved by the handler: the
\* file holds the three ids as decimal strings and loads back to the store.
C13_Witness ==
  /\ h.pc = "reply" /\ h.reply = "added" /\ h.user = 12
  /\ Len(user_trackings) = 3
  /\ HasUser(user_trackings, 0 - 7) /\ HasUser(user_trackings, 7)
  /\ Tracked(user_trackings, 7, "AWB2") /\ Tracked(user_trackings, 12, "AWB1")
  /\ tracking_file = save_tracking_data(user_trackings)
  /\ {tracking_file.data[i].key : i \in 1..3} = {"-7", "7", "12"}
  /\ Persisted

\* C14: a send_message that raises leaves the cycle in its inner loop with
\* the same remaining items, the same iterator and the flag that makes the
\* cycle save; and a cycle in which a send raised and which returns has gone
\* through every subscriber and item and has saved the store.
FailedInCycle ==
  failed_send # NoMsg /\ \E j \in 1..Len(log) : log[j] = failed_send

C14_FailedSendStep ==
  send_message_observed(FALSE) =>
    /\ poll_pc' = "inner" /\ result' = "none"
    /\ items' = items /\ it' = it /\ cur_user' = cur_user
    /\ changes_made'
    /\ user_trackings' = user_trackings

C14_CycleEnd ==
  (poll_pc = "done" /\ result = "returned" /\ FailedInCycle) =>
    /\ items = <<>> /\ it.pos = Len(user_trackings)
    /\ Persisted

C15_TrackStep ==
  \A r \in Requests, d \in fetch_bluedart_details :
    (HandlerStep({"track"}) /\ track(r[1], r[2], d)) =>
      IF d.found /\ d.IsDelivered /\ Tracked(user_trackings, r[1], r[2])
      THEN /\ Entries(user_trackings') =
                Entries(user_trackings)
                  \ {<<r[1], r[2], StatusOf(user_trackings, r[1], r[2])>>}
           /\ PersistedNext
      ELSE StoreAndFileUnchanged

C15_TrackNeverSubscribes == [][C15_TrackStep]_vars

\* Track of a delivered waybill has removed the caller's entry for it and
\* left the caller's other entry.
C15_Witness ==
  /\ h.pc = "reply" /\ h.op = "track" /\ h.reply = "delivered_removed"
  /\ ~Tracked(user_trackings, h.user, h.awb)
  /\ HasUser(user_trackings, h.user)
  /\ Persisted

\* C16: when a cycle ends, the persisted store reflects every change the
\* cycle has notified: an entry notified as delivered is not in it, an entry
\* notified with a new status has that status, so that a cycle after a
\* restart finds nothing to notify again.
C16_NotifiedChangeIsPersisted ==
  poll_pc = "done" =>
    \A i \in 1..Len(log) :
      LET f == load_tracking_data(tracking_file)
          m == log[i]
      IN IF m.kind = "delivered"
         THEN ~Tracked(f, m.to, m.awb)
         ELSE Tracked(f, m.to, m.awb) => StatusOf(f, m.to, m.awb) = m.status

\* C17: a notification whose send raised is delivered later: the history
\* of the undelivered notification is cleared again.
C17_NoTransitionDropped == (failed_send # NoMsg) ~> (failed_send = NoMsg)

\* A call of fetch_bluedart_details returned a details dict.
Extracted == fetched.returned /\ fetched.details.found

\* C18: in every record extraction returns, "Is Delivered" is true exactly
\* when the Status field of the record, as returned after the clean-up
\* loop, contains "delivered" in any letter case.
C18_DeliveredFlagMatchesStatus ==
  Extracted =>
    (fetched.details.IsDelivered
       <=> Contains(lower(fetched.details.fields["Status"]), "delivered"))

\* C19: every returned record has exactly one of the two conditional field
\* sets: date of delivery, time of delivery and recipient are present exactly
\* when "Is Delivered" is true, expected delivery exactly when it is false.
C19_ExactlyOneConditionalSet ==
  Extracted =>
    LET keys == DOMAIN fetched.details.fields
    IN /\ \A k \in {"Date of Delivery", "Time of Delivery", "Recipient"} :
            k \in keys <=> fetched.details.IsDelivered
       /\ "Expected Delivery" \in keys <=> ~fetched.details.IsDelivered

\* A page whose scan table gives a delivered status and whose details table
\* gives the delivery date was extracted: the record carries the delivery
\* fields, the date among them, and no expected delivery.
C19_Witness ==
  /\ Extracted
  /\ awb_arg = "AWB1"
  /\ Len(resp.doc) = 2
  /\ fetched.details.IsDelivered
  /\ fetched.details.fields["Status"] = "Shipment Delivered"
  /\ "Recipient" \in DOMAIN fetched.details.fields
  /\ fetched.details.fields["Date of Delivery"] = "01 Jan 2024"
  /\ "Expected Delivery" \notin DOMAIN fetched.details.fields

\* C20: whatever the page and the waybill id, no text field of a returned
\* record is the empty string.
C20_NoEmptyTextField ==
  Extracted =>
    \A k \in DOMAIN fetched.details.fields : fetched.details.fields[k] # ""

\* C21: status resolution never yields "N/A": for every page that gives a
\* record, get_latest_status returns a status other than "N/A", and the
\* Status field of the record, which the poll loop stores and compares, is
\* not "N/A" either.
C21_StatusNeverNA ==
  Extracted =>
    /\ get_latest_status(resp.doc).status # "N/A"
    /\ fetched.details.fields["Status"] # "N/A"

\* C22: a poll cycle examines every triple that was in the store when it
\* started, also when the cycle itself removes entries or subscribers.  In a
\* cycle no handler ran during (blocks = 0) every subscriber of the store at
\* the end was there at the start, so when the cycle is over the iteration
\* has passed every subscriber the store holds.
C22_CycleExaminesEveryTriple ==
  (poll_pc = "done" /\ blocks = 0 /\ result # "nothing_to_check")
    => it.pos = Len(user_trackings)

\* The entry the inner loop is about to examine is not in the live store
\* any more: a handler removed it while the cycle was suspended.
ExaminesRemovedEntry ==
  /\ poll_pc = "inner"
  /\ items # <<>>
  /\ ~Tracked(user_trackings, cur_user, Head(items).awb)

\* C23: when a foreground operation removed an entry and the suspended poll
\* cycle then detects delivery of that same entry, nothing is evicted a
\* second time, the store is left as it is and the cycle goes on.
C23_Step ==
  ExaminesRemovedEntry =>
    \A d \in Delivered :
      check_entry_block(d) =>
        /\ user_trackings' = user_trackings
        /\ poll_pc' # "done"

C23_NoDoubleEviction == [][C23_Step]_vars

\* A run of the flush job: save_tracking_data between two blocks of the
\* event loop or overlapping a block of the poll cycle.
FlushRuns == flush \/ \E d \in fetch_bluedart_details : flush_in_thread(d)

\* C24: the flush job never runs while a poll cycle has started and has not
\* finished.
C24_FlushNeverDuringCycle ==
  [][FlushRuns => poll_pc \in {"idle", "done"}]_vars

\* C25: an entry its subscriber removed while the poll cycle was suspended
\* is not re-created by the cycle's status overwrite, and no notification
\* for it is sent.
C25_Step ==
  ExaminesRemovedEntry =>
    \A d \in InTransit :
      check_entry_block(d) =>
        /\ ~Tracked(user_trackings', cur_user, Head(items).awb)
        /\ pending' = NoMsg

C25_RemovedEntryNotRecreated == [][C25_Step]_vars

\* Extraction d, if it succeeded, gave the status stored for the entry the
\* inner loop examines.
NoNewStatus(d) == d.found => d.Status = Head(items).status

\* C26: a poll cycle whose successful extractions all yield the stored
\* status is a no-op.  Examining an entry with no new status changes neither
\* the store nor the file, raises no flag and sends nothing; a cycle that
\* raised no flag ends without a save; a cycle over an empty store ends at
\* once, without an extraction.
C26_Step ==
  /\ (poll_pc = "inner" /\ items # <<>>) =>
       \A d \in fetch_bluedart_details :
         (check_entry_block(d) /\ NoNewStatus(d)) =>
           /\ UNCHANGED <<user_trackings, tracking_file, changes_made, pending>>
           /\ poll_pc' = "inner"
  /\ (poll_pc = "outer" /\ ~changes_made) => tracking_file' = tracking_file
  /\ (poll_pc = "idle" /\ poll_pc' # "idle" /\ user_trackings = <<>>) =>
       /\ poll_pc' = "done"
       /\ UNCHANGED <<user_trackings, tracking_file>>

C26_UnchangedStatusCycleIsNoOp == [][C26_Step]_vars

\* The entries of a store that are not under subscriber u, and the other
\* subscriber keys.
EntriesOfOthers(ut, u) == {e \in Entries(ut) : e[1] # u}
OtherKeys(ut, u) == {v \in Users \ {u} : HasUser(ut, v)}

\* C27: subscribers are isolated.  A handler block run for subscriber u
\* changes no entry and no key of another subscriber.  The poll cycle takes
\* the statuses it compares from the dict of the subscriber it is at; when
\* it examines (u, w) it changes no entry other than (u, w), and what it
\* sends is one notification, to u, about w.
C27_HandlerStep ==
  (/\ HandlerStep({"add", "add_track", "remove", "track", "confirm_clear"})
   /\ h' # h)
  => /\ EntriesOfOthers(user_trackings', h'.user) =
          EntriesOfOthers(user_trackings, h'.user)
     /\ OtherKeys(user_trackings', h'.user) = OtherKeys(user_trackings, h'.user)

C27_PollStep ==
  /\ (poll_pc = "outer" /\ poll_pc' = "inner") =>
       /\ HasUser(user_trackings, cur_user')
       /\ items' = AwbsOf(user_trackings, cur_user')
  /\ (poll_pc = "inner" /\ items # <<>> /\ items' # items) =>
       /\ \A e \in Entries(user_trackings) \cup Entries(user_trackings') :
            (e[1] # cur_user \/ e[2] # Head(items).awb) =>
              (e \in Entries(user_trackings) <=> e \in Entries(user_trackings'))
       /\ OtherKeys(user_trackings', cur_user) = OtherKeys(user_trackings, cur_user)
       /\ pending' # NoMsg =>
            /\ pending'.to = cur_user
            /\ pending'.awb = Head(items).awb
  /\ (poll_pc = "send" /\ poll_pc' = "inner") =>
       /\ log' = Append(log, pending)
       /\ user_trackings' = user_trackings

C27_SubscribersAreIsolated == [][C27_HandlerStep /\ C27_PollStep]_vars

\* Two subscribers track the same waybill; the cycle found a new status for
\* each, wrote it under each and notified each of them once.
C27_Witness ==
  /\ Len(log) = 2
  /\ log[1].to = 7 /\ log[2].to = 12
  /\ log[1].awb = "AWB1" /\ log[2].awb = "AWB1"
  /\ log[1].kind = "status" /\ log[2].kind = "status"
  /\ Tracked(user_trackings, 7, "AWB1") /\ Tracked(user_trackings, 12, "AWB1")
  /\ StatusOf(user_trackings, 7, "AWB1") = log[1].status
  /\ StatusOf(user_trackings, 12, "AWB1") = log[2].status

\* C28: a handler block that changes the store saves it in the same block,
\* so whenever no poll cycle is in progress the file holds the in-memory
\* store.
C28_HandlerStep ==
  (/\ HandlerStep({"add", "add_track", "remove", "track", "confirm_clear"})
   /\ h' # h
   /\ user_trackings' # user_trackings)
  => PersistedNext

C28_HandlersSaveWhatTheyChange ==
  /\ [][C28_HandlerStep]_vars
  /\ [](poll_pc \in {"idle", "done"} => Persisted)

\* The result of the plain-text line scan followed by the sentinel.
LineScanStatus(doc) ==
  IF StatusLines(doc) # <<>> THEN JoinSplit(Head(StatusLines(doc)))
  ELSE "Status not available"

\* The first success of the strategies in their order: field cascade,
\* dedicated Status row, first scan-table entry, line scan, sentinel.
FirstSuccess(doc) ==
  LET cascade == get_detail(doc, "Status", <<"Current Status", "Shipment Status">>)
  IN IF cascade # "N/A" THEN cascade
     ELSE IF StatusRows(doc) # <<>> THEN Head(StatusRows(doc))[2].s
     ELSE IF history_entries(doc) # <<>> THEN Head(history_entries(doc))[2]
     ELSE LineScanStatus(doc)

\* C29: the status of a record is the first success of the strategies in
\* their fixed order; for every page without a table it is what the
\* plain-text line scan gives (a line or the sentinel); the page that
\* consists of the line "Order Status: In Transit For Further Info" yields
\* that line.
C29_StrategyOrder ==
  Extracted =>
    /\ fetched.details.fields["Status"] = CleanField(FirstSuccess(resp.doc))
    /\ find_all_table(resp.doc) = <<>> =>
         fetched.details.fields["Status"] = CleanField(LineScanStatus(resp.doc))
    /\ resp.doc = <<Text("Order Status: In Transit For Further Info")>> =>
         fetched.details.fields["Status"] = "Order Status: In Transit For Further Info"

\* The text-sibling walk of the field cascade finds no status on the page.
NoSiblingStatus(doc) ==
  sibling_walk(doc, <<"Status", "Current Status", "Shipment Status">>) = <<>>

\* C29, amended: as C29, the fall-through to the plain-text line scan being
\* claimed for the pages without a table on which the text-sibling walk of
\* the field cascade finds no status either.
C29_StrategyOrderAmended ==
  Extracted =>
    /\ fetched.details.fields["Status"] = CleanField(FirstSuccess(resp.doc))
    /\ (find_all_table(resp.doc) = <<>> /\ NoSiblingStatus(resp.doc)) =>
         fetched.details.fields["Status"] = CleanField(LineScanStatus(resp.doc))
    /\ resp.doc = <<Text("Order Status: In Transit For Further Info")>> =>
         fetched.details.fields["Status"] = "Order Status: In Transit For Further Info"

\* The page that consists of the one line was extracted and the line is the
\* status of the record.
C29_Witness ==
  /\ Extracted
  /\ awb_arg = "AWB1"
  /\ resp.doc = <<Text("Order Status: In Transit For Further Info")>>
  /\ find_all_table(resp.doc) = <<>>
  /\ fetched.details.fields["Status"] = "Order Status: In Transit For Further Info"
  /\ ~fetched.details.IsDelivered

\* The data rows of the scan table that have exactly four cells and a
\* details cell longer than three characters.
FourCellEntries(doc) ==
  SelectSeq(ScanCols(doc), LAMBDA cols : Len(cols) = 4 /\ Len(cols[2]) > 3)

\* The field cascade and the dedicated Status row gave nothing, so the
\* status of the page is looked for in the scan table.
ReachesScanTable(doc) ==
  /\ get_detail(doc, "Status", <<"Current Status", "Shipment Status">>) = "N/A"
  /\ StatusRows(doc) = <<>>

\* C30: in the scan-table fallback only data rows with exactly four cells
\* count and rows with fewer or more cells are ignored without failing the
\* extraction: a page that reaches the fallback gives a record, whose status
\* is the details cell of the first four-cell row with details longer than
\* three characters, or what the later strategies give when there is none.
C30_ScanTableFallback ==
  (fetched.returned /\ resp.code = 200 /\ ReachesScanTable(resp.doc)) =>
    /\ fetched.details.found
    /\ fetched.details.fields["Status"] =
         CleanField(IF FourCellEntries(resp.doc) # <<>>
                    THEN Head(FourCellEntries(resp.doc))[2]
                    ELSE LineScanStatus(resp.doc))

\* The calls of get_detail in fetch_bluedart_details: the label and the
\* alternatives of each (lines 137 and 212-226).
DetailCalls ==
  {<<"Status", <<"Current Status", "Shipment Status">> >>,
   <<"Pickup Date", <<"Pickup", "Pick Up Date", "Booking Date">> >>,
   <<"From", <<"Origin", "Source", "Consignor">> >>,
   <<"To", <<"Destination", "Consignee", "Delivery To">> >>,
   <<"Reference No", <<"Reference", "Ref No", "Customer Reference">> >>,
   <<"Date of Delivery", <<"Delivery Date", "Delivered Date">> >>,
   <<"Time of Delivery", <<"Delivery Time", "Delivered Time">> >>,
   <<"Recipient", <<"Received By", "Delivered To">> >>,
   <<"Expected Date of Delivery", <<"Expected Delivery", "Delivery Date", "EDD">> >>}

\* The places of a page where a table cell contains one of the terms, in any
\* letter case, and the next cell of its row is neither empty nor "N/A":
\* table, row and cell number.
AdjacentPlaces(doc, terms) ==
  LET tables == find_all_table(doc)
      lowered == {lower(terms[k]) : k \in 1..Len(terms)}
  IN {p \in UNION {UNION {{<<t, r, i>> : i \in 1..(Len(tables[t].rows[r]) - 1)} :
                            r \in 1..Len(tables[t].rows)} :
                     t \in 1..Len(tables)} :
        LET row == tables[p[1]].rows[p[2]]
        IN /\ row[p[3] + 1].s \notin {"", "N/A"}
           /\ LET text == lower(row[p[3]].s)
              IN \E term \in lowered : Contains(text, term)}

\* p comes before q in page order.
PageOrder(p, q) ==
  \/ p[1] < q[1]
  \/ p[1] = q[1] /\ p[2] < q[2]
  \/ p[1] = q[1] /\ p[2] = q[2] /\ p[3] <= q[3]

\* The cell that follows the first of the given places in page order.
FirstAdjacentValue(doc, places) ==
  LET p == CHOOSE x \in places : \A y \in places : PageOrder(x, y)
  IN find_all_table(doc)[p[1]].rows[p[2]][p[3] + 1].s

\* Some text node of the page contains one of the terms and a sibling after
\* its parent has a text the walk accepts.
SiblingMatch(doc, terms) ==
  LET nodes == TextNodes(doc)
      lowered == {lower(terms[k]) : k \in 1..Len(terms)}
  IN \E n \in 1..Len(nodes) :
       /\ LET text == lower(nodes[n].s)
          IN \E term \in lowered : Contains(text, term)
       /\ \E m \in 1..Len(nodes[n].sibs) : Meaningful(nodes[n].sibs[m])

\* The parse of a fetched page, in which every call of get_detail is made
\* or cut short by an exception.
Parsed == fetched.returned /\ resp.code = 200

\* C31: in get_detail table adjacency takes precedence over the text-sibling
\* walk: whenever some table row has a cell containing the label or an
\* alternative followed by a cell that is non-empty and not "N/A", the
\* result is the following cell of the first such match in page order,
\* whatever the text-sibling walk finds; "N/A" is returned only when both
\* strategies fail.
C31_TableAdjacencyFirst ==
  Parsed =>
    \A c \in DetailCalls :
      LET terms == <<c[1]>> \o c[2]
          value == get_detail(resp.doc, c[1], c[2])
          places == AdjacentPlaces(resp.doc, terms)
      IN /\ places # {} => value = FirstAdjacentValue(resp.doc, places)
         /\ value = "N/A" =>
              /\ places = {}
              /\ ~SiblingMatch(resp.doc, terms)

\* C31, amended: as C31, "N/A" being returned only when both strategies
\* fail or when the text the text-sibling walk returns is itself "N/A".
C31_TableAdjacencyFirstAmended ==
  Parsed =>
    \A c \in DetailCalls :
      LET terms == <<c[1]>> \o c[2]
          value == get_detail(resp.doc, c[1], c[2])
          places == AdjacentPlaces(resp.doc, terms)
      IN /\ places # {} => value = FirstAdjacentValue(resp.doc, places)
         /\ value = "N/A" =>
              /\ places = {}
              /\ \/ ~SiblingMatch(resp.doc, terms)
                 \/ sibling_walk(resp.doc, terms) = <<"N/A">>

\* A page on which the table row and the text-sibling walk both give a
\* status, and not the same one, was extracted; the record has the one of
\* the table row.
C31_Witness ==
  /\ Extracted
  /\ resp.doc = <<Para("Current Status"),
                  Table(<< <<Cell("th", "Status"), Cell("td", "In Transit")>> >>)>>
  /\ AdjacentPlaces(resp.doc, <<"Status">>) # {}
  /\ SiblingMatch(resp.doc, <<"Status">>)
  /\ sibling_walk(resp.doc, <<"Status">>) = <<"StatusIn Transit">>
  /\ fetched.details.fields["Status"] = "In Transit"

\* The number of the table the history is taken from among the tables of
\* the page, 0 when there is none: the first table whose text contains the
\* phrase "Status and Scans", or failing that the first table with exactly
\* four header cells that include "date" and "time" in any letter case.
SelectedTable(doc) ==
  LET tables == find_all_table(doc)
      HeaderCells(t) ==
        {p \in UNION {{<<r, i>> : i \in 1..Len(tables[t].rows[r])} :
                        r \in 1..Len(tables[t].rows)} :
           tables[t].rows[p[1]][p[2]].tag = "th"}
      Header(t, name) ==
        \E p \in HeaderCells(t) : lower(tables[t].rows[p[1]][p[2]].s) = name
      named == {t \in 1..Len(tables) :
                  Contains(get_text(tables[t]), "Status and Scans")}
      four == {t \in 1..Len(tables) :
                 /\ Cardinality(HeaderCells(t)) = 4
                 /\ Header(t, "date")
                 /\ Header(t, "time")}
      First(S) == CHOOSE t \in S : \A u \in S : t <= u
  IN IF named # {} THEN First(named)
     ELSE IF four # {} THEN First(four)
     ELSE 0

\* The rows of the selected table after its first that have exactly four
\* data cells, by their row numbers.
FourCellRows(doc) ==
  LET rows == find_all_table(doc)[SelectedTable(doc)].rows
  IN IF SelectedTable(doc) = 0 THEN {}
     ELSE {r \in 2..Len(rows) :
             /\ Len(rows[r]) = 4
             /\ \A i \in 1..4 : rows[r][i].tag = "td"}

\* hist has one entry for each of the four-cell rows, in page order, made of
\* the location, details, date and time of the row.
IsHistoryOf(hist, doc) ==
  LET rows == find_all_table(doc)[SelectedTable(doc)].rows
      Row(k) == CHOOSE r \in FourCellRows(doc) :
                  Cardinality({q \in FourCellRows(doc) : q < r}) = k - 1
  IN /\ Len(hist) = Cardinality(FourCellRows(doc))
     /\ \A k \in 1..Len(hist) :
          hist[k] = <<rows[Row(k)][3].s, rows[Row(k)][4].s,
                   rows[Row(k)][1].s, rows[Row(k)][2].s>>

\* C32: the history of a call that returns a record has one entry for each
\* data row with exactly four cells of the selected scan table, in page
\* order, the header row and the rows with another number of cells skipped,
\* whichever strategy gave the status; the history of a call whose
\* extraction fails is empty.
C32_HistoryOfSelectedTable ==
  fetched.returned =>
    IF fetched.details.found
    THEN IsHistoryOf(fetched.history, resp.doc)
    ELSE fetched.history = <<>>

\* A page whose history table, found by its four headers, has a row of three
\* cells between two rows of four was extracted, the status resolution
\* having stopped at its sentinel: the history is the two rows in page order.
C32_Witness ==
  /\ Extracted
  /\ Len(resp.doc) = 1
  /\ SelectedTable(resp.doc) = 1
  /\ FourCellRows(resp.doc) = {2, 4}
  /\ get_latest_status(resp.doc).step = 5
  /\ fetched.history = << <<"01 Jan 2024", "10:30", "DELHI", "Picked Up">>,
                          <<"03 Jan 2024", "09:15", "PUNE", "Arrived">> >>
====
